---- MODULE Spec2Model ----
(***************************************************************************)
(* Route viewer of TSP_Project: geographic layout, collision resolution,   *)
(* uniform-link layout and the progressive playback of the traveller.      *)
(*                                                                         *)
(* Numbers: pixel coordinates are integers (whole pixels, every division   *)
(* rounded to nearest as Math.round does); geographic coordinates are      *)
(* whole degrees, their transformed values thousandths of a degree; times  *)
(* are milliseconds.  NaN is kept as a value of its own, with the          *)
(* propagation rules of IEEE arithmetic written out where the code meets   *)
(* it.                                                                     *)
(***************************************************************************)
EXTENDS Integers, Sequences, FiniteSets, TLC

VARIABLES
    points,         \* normalised waypoints (const points)
    width,          \* canvas width  (const width)
    height,         \* canvas height (const height)
    hasUniformBtn,  \* document.getElementById('uniformLayoutBtn') !== null
    nodePositions,  \* nodePositions[i]
    nodeLayer,      \* the g.node groups in document order
    edgeLayer,      \* the lines (with their distance texts) in document order
    traveller,      \* cx, cy of the traveller marker
    playing,
    speed,
    currentIndex,
    isUniform,
    rafq,           \* pending requestAnimationFrame(step) callbacks, in order
    timers,         \* pending 250 ms settle timers of playSequence loops
    sepPasses,      \* separation passes the resolveCollisions IIFE executed
    resolverLog,    \* moved / changed of each pass the IIFE executed
    toggles,        \* clicks on the uniform button so far
    lastCmd,        \* the handler or callback that ran last
    optimizeForm    \* the route-optimisation form and the elements it drives

vars == <<points, width, height, hasUniformBtn, nodePositions, nodeLayer,
          edgeLayer, traveller, playing, speed, currentIndex, isUniform,
          rafq, timers, sepPasses, resolverLog, toggles, lastCmd,
          optimizeForm>>

----------------------------------------------------------------------------
(* Bounds of the model *)

MaxLoops == 2        \* playSequence activations alive at once
MaxPoints == 3       \* waypoints of a route
MaxToggles == 1      \* clicks on the uniform button
FrameMs == 250      \* time between two animation frames

----------------------------------------------------------------------------
(* Program constants *)

pad == 40
compressionScale == 1000   \* thousandths of a degree per degree
iterations == 25
toggleIterations == 20
collinearityPasses == 6
settleMs == 250
minBaseMs == 400
maxBaseMs == 6000
earthRadiusKm == 6371
nearKm == 1000
maxSizeScale == 24
minSizeScale == 8
defaultTarget == 320
loadTarget == 250

NaN == 0 - 999999

IsNaN(v) == v = NaN

----------------------------------------------------------------------------
(* Arithmetic helpers *)

Abs(a) == IF a < 0 THEN 0 - a ELSE a

Sign(a) == IF a < 0 THEN 0 - 1 ELSE IF a > 0 THEN 1 ELSE 0

\* Math.round(a / b) for b > 0
RoundDiv(a, b) == (2 * a + b) \div (2 * b)

MathMax(a, b) == IF IsNaN(a) \/ IsNaN(b) THEN NaN ELSE IF a > b THEN a ELSE b

MathMin(a, b) == IF IsNaN(a) \/ IsNaN(b) THEN NaN ELSE IF a < b THEN a ELSE b

\* Math.max(lo, Math.min(hi, v))
Clamp(lo, hi, v) == MathMax(lo, MathMin(hi, v))

RECURSIVE SqrtSearch(_, _, _)
SqrtSearch(n, lo, hi) ==
    IF lo >= hi THEN lo
    ELSE LET mid == (lo + hi + 1) \div 2
         IN  IF mid * mid <= n THEN SqrtSearch(n, mid, hi)
             ELSE SqrtSearch(n, lo, mid - 1)

\* floor of the square root
ISqrt(n) == SqrtSearch(n, 0, IF n < 46340 THEN n ELSE 46340)

\* square root rounded to nearest
RSqrt(n) == LET r == ISqrt(n) IN IF n - r * r > r THEN r + 1 ELSE r

\* Math.hypot(dx, dy)
Hypot(dx, dy) == IF IsNaN(dx) \/ IsNaN(dy) THEN NaN ELSE RSqrt(dx * dx + dy * dy)

Sub(a, b) == IF IsNaN(a) \/ IsNaN(b) THEN NaN ELSE a - b

\* d3.min / d3.max skip NaN; of no number they are undefined, which the
\* arithmetic that follows turns into NaN
RECURSIVE FoldMin(_, _, _)
FoldMin(f, n, acc) ==
    IF n < 0 THEN acc
    ELSE FoldMin(f, n - 1,
                 IF IsNaN(f[n]) THEN acc
                 ELSE IF IsNaN(acc) \/ f[n] < acc THEN f[n] ELSE acc)

RECURSIVE FoldMax(_, _, _)
FoldMax(f, n, acc) ==
    IF n < 0 THEN acc
    ELSE FoldMax(f, n - 1,
                 IF IsNaN(f[n]) THEN acc
                 ELSE IF IsNaN(acc) \/ f[n] > acc THEN f[n] ELSE acc)

d3min(f) == FoldMin(f, Cardinality(DOMAIN f) - 1, NaN)

d3max(f) == FoldMax(f, Cardinality(DOMAIN f) - 1, NaN)

----------------------------------------------------------------------------
(* Tables of the transcendental functions, for whole and half degrees *)

\* 1000 * (h/2)^0.6 for h = 0..80 half degrees
Pow06Table ==
    <<0, 660, 1000, 1275, 1516, 1733, 1933, 2121, 2297, 2466, 2627, 2781,
      2930, 3074, 3214, 3350, 3482, 3611, 3737, 3860, 3981, 4099, 4215, 4329,
      4441, 4551, 4660, 4767, 4872, 4975, 5078, 5178, 5278, 5376, 5474, 5570,
      5665, 5758, 5851, 5943, 6034, 6124, 6213, 6302, 6389, 6476, 6562, 6647,
      6732, 6816, 6899, 6981, 7063, 7144, 7225, 7305, 7384, 7463, 7541, 7619,
      7696, 7773, 7849, 7925, 8000, 8075, 8149, 8223, 8296, 8369, 8442, 8514,
      8586, 8657, 8728, 8799, 8869, 8939, 9008, 9077, 9146>>

\* 10000 * cos(d) for d = 0..40 degrees
CosTable ==
    <<10000, 9998, 9994, 9986, 9976, 9962, 9945, 9925, 9903, 9877, 9848,
      9816, 9781, 9744, 9703, 9659, 9613, 9563, 9511, 9455, 9397, 9336, 9272,
      9205, 9135, 9063, 8988, 8910, 8829, 8746, 8660, 8572, 8480, 8387, 8290,
      8192, 8090, 7986, 7880, 7771, 7660>>

\* 10^8 * sin^2(d/2) for d = 0..40 degrees
HavTable ==
    <<0, 7615, 30459, 68523, 121797, 190265, 273905, 372692, 486597, 615583,
      759612, 918641, 1092620, 1281497, 1485214, 1703709, 1936915, 2184762,
      2447174, 2724071, 3015369, 3320979, 3640807, 3974757, 4322727, 4684611,
      5060298, 5449674, 5852620, 6269015, 6698730, 7141635, 7597595, 8066472,
      8548121, 9042398, 9549150, 10068224, 10599462, 11142702, 11697778>>

\* Math.sign(d) * Math.pow(Math.abs(d), compressionExp), d given in half
\* degrees, result in thousandths of a degree
Compress(h) == Sign(h) * Pow06Table[Abs(h) + 1]

\* asin(x) for x = s / 10000, result in 1/10000 rad (series up to x^7)
Asin4(s) ==
    LET s2 == (s * s) \div 10000
        s3 == (s2 * s) \div 10000
        s5 == (s3 * s2) \div 10000
        s7 == (s5 * s2) \div 10000
    IN  s + s3 \div 6 + (3 * s5) \div 40 + (15 * s7) \div 336

\* haversineKm(lat1, lon1, lat2, lon2), in tenths of a kilometre
haversineKm(lat1, lon1, lat2, lon2) ==
    IF IsNaN(lat1) \/ IsNaN(lon1) \/ IsNaN(lat2) \/ IsNaN(lon2) THEN NaN
    ELSE LET hLat == HavTable[Abs(lat2 - lat1) + 1]
             hLon == HavTable[Abs(lon2 - lon1) + 1]
             cp   == (CosTable[Abs(lat1) + 1] * CosTable[Abs(lat2) + 1]) \div 10000
             a    == hLat + cp * (hLon \div 10000) + (cp * (hLon % 10000)) \div 10000
             c    == 2 * Asin4(RSqrt(a))
         IN  RoundDiv(earthRadiusKm * c, 1000)

\* realKm < 1000
NearKm(km) == ~IsNaN(km) /\ km < nearKm * 10

----------------------------------------------------------------------------
(* Coordinate projector (lines 33-61) *)

NumPoints(pts) == Cardinality(DOMAIN pts)

Indices(pts) == 0 .. (NumPoints(pts) - 1)

\* the domain [lonTMin, lonTMax] (or [latTMin, latTMax]) of a scale, in
\* thousandths of a degree, from the raw coordinates f
ScaleDomain(f) ==
    LET mn == d3min(f)
        mx == d3max(f)
        \* twice the centre; widening a collapsed span leaves it unchanged
        c2 == IF IsNaN(mn) THEN NaN ELSE mn + mx
        tr == [i \in DOMAIN f |->
                  IF IsNaN(f[i]) \/ IsNaN(c2) THEN NaN
                  ELSE Compress(2 * f[i] - c2) + (compressionScale \div 2) * c2]
        tmn == d3min(tr)
        tmx == d3max(tr)
    IN  IF IsNaN(tmn) THEN [lo |-> NaN, hi |-> NaN]
        ELSE IF tmx - tmn = 0
             THEN [lo |-> tmn - compressionScale \div 2,
                   hi |-> tmx + compressionScale \div 2]
             ELSE [lo |-> tmn, hi |-> tmx]

\* d3.scaleLinear().domain([d0, d1]).range([r0, r1]) applied to v degrees
ScaleLinear(d0, d1, r0, r1, v) ==
    IF IsNaN(v) \/ IsNaN(d0) \/ IsNaN(d1) THEN NaN
    ELSE r0 + RoundDiv((v * compressionScale - d0) * (r1 - r0) * Sign(d1 - d0),
                       Abs(d1 - d0))

xScale(pts, w, v) ==
    LET dom == ScaleDomain([i \in DOMAIN pts |-> pts[i].lng])
    IN  ScaleLinear(dom.lo, dom.hi, pad, w - pad, v)

\* a vertical scale that grows with the latitude: south at the top
yScaleSouthUp(pts, h, v) ==
    LET dom == ScaleDomain([i \in DOMAIN pts |-> pts[i].lat])
    IN  ScaleLinear(dom.lo, dom.hi, pad, h - pad, v)

yScale(pts, h, v) ==
    LET dom == ScaleDomain([i \in DOMAIN pts |-> pts[i].lat])
    IN  ScaleLinear(dom.hi, dom.lo, pad, h - pad, v)

----------------------------------------------------------------------------
(* Label metrics and initial positions (lines 81-105) *)

SizeScale(n) ==
    MathMax(minSizeScale, MathMin(maxSizeScale, RoundDiv(600, n) + 6))

FontSize(n) == MathMax(10, MathMin(20, RoundDiv(SizeScale(n) * 9, 10)))

computeAllPositions(pts, w, h) ==
    LET n         == NumPoints(pts)
        sizeScale == SizeScale(n)
        fontSize  == FontSize(n)
    IN  [i \in DOMAIN pts |->
          LET labelWidth  == MathMin(w - 2 * pad, pts[i].bw)
              labelHeight == IF pts[i].bh = 0 THEN fontSize + 4 ELSE pts[i].bh
              rawX     == xScale(pts, w, pts[i].lng)
              rawY     == yScale(pts, h, pts[i].lat)
              clampedX == MathMax(pad + RoundDiv(labelWidth, 2),
                                  MathMin(w - pad - RoundDiv(labelWidth, 2), rawX))
              minY     == pad + sizeScale
              maxY     == h - pad - sizeScale - labelHeight - 4
              clampedY == MathMax(minY, MathMin(maxY, rawY))
              below    == sizeScale + RoundDiv(fontSize * 2, 3)
              labelY   == IF ~IsNaN(clampedY) /\ clampedY + below + 4 > h - pad
                          THEN 0 - RoundDiv(fontSize, 2) - 4
                          ELSE below
          IN  [x |-> clampedX, y |-> clampedY, fontSize |-> fontSize,
               sizeScale |-> sizeScale, labelY |-> labelY,
               labelWidth |-> labelWidth, labelHeight |-> labelHeight,
               drawn |-> FALSE]]

----------------------------------------------------------------------------
(* Collision and collinearity resolver (lines 148-245) and the relaxation  *)
(* of the geographic branch of the toggle (lines 402-427)                  *)

\* the directions Math.random() can give a coincident pair, as unit
\* vectors in thousandths (the random offset itself is below one pixel)
RandomDirs ==
    {[nx |-> 1000, ny |-> 0], [nx |-> 0, ny |-> 1000],
     [nx |-> 0 - 707, ny |-> 707], [nx |-> 0 - 707, ny |-> 0 - 707]}

\* the ordered pairs (i, j), i < j, in the order of the nested loops
PairSeq(n) ==
    LET RECURSIVE Build(_, _)
        Build(i, j) ==
            IF i >= n - 1 THEN <<>>
            ELSE IF j >= n THEN Build(i + 1, i + 2)
            ELSE <<[i |-> i, j |-> j]>> \o Build(i, j + 1)
    IN  Build(0, 1)

\* line 211: minimum separation of the IIFE, with the proximity factor
MinSepInitial(pts, np, i, j) ==
    LET twice == 2 * (np[i].sizeScale + np[j].sizeScale)
                 + MathMax(np[i].labelWidth, np[j].labelWidth) + 16
        realKm == haversineKm(pts[i].lat, pts[i].lng, pts[j].lat, pts[j].lng)
    IN  IF NearKm(realKm) THEN RoundDiv(twice * 16, 20) ELSE RoundDiv(twice, 2)

\* line 414: minimum separation of the toggle's relaxation
MinSepToggle(pts, np, i, j) ==
    LET twice == 2 * (np[i].sizeScale + np[j].sizeScale)
                 + MathMax(np[i].labelWidth, np[j].labelWidth) + 16
    IN  RoundDiv(twice, 2)

\* lines 201-222 / 412-420: one pair of one pass.  onlyIfChanged is the
\* IIFE's test of line 220; the toggle sets moved whenever it pushes.
SepPair(np, w, h, i, j, minSep, rnd, onlyIfChanged, moved) ==
    LET a  == np[i]
        b  == np[j]
        dx == Sub(b.x, a.x)
        dy == Sub(b.y, a.y)
        d0 == Hypot(dx, dy)
    IN  IF IsNaN(d0) THEN [np |-> np, moved |-> moved]
        ELSE
        LET same == (dx = 0 /\ dy = 0)
            tooClose == same \/ dx * dx + dy * dy < minSep * minSep
            \* nx * overlap and ny * overlap
            px == IF same THEN RoundDiv(rnd.nx * minSep, 2000)
                  ELSE RoundDiv(dx * (minSep - d0), 2 * d0)
            py == IF same THEN RoundDiv(rnd.ny * minSep, 2000)
                  ELSE RoundDiv(dy * (minSep - d0), 2 * d0)
            axNew == Clamp(pad, w - pad, a.x - px)
            ayNew == Clamp(pad, h - pad, a.y - py)
            bxNew == Clamp(pad, w - pad, b.x + px)
            byNew == Clamp(pad, h - pad, b.y + py)
            changed == axNew # a.x \/ ayNew # a.y \/ bxNew # b.x \/ byNew # b.y
        IN  IF ~tooClose \/ minSep <= 0 THEN [np |-> np, moved |-> moved]
            ELSE [np |-> [np EXCEPT ![i].x = axNew, ![i].y = ayNew,
                                    ![j].x = bxNew, ![j].y = byNew],
                  moved |-> moved \/ changed \/ ~onlyIfChanged]

\* one pass over the first m pairs (the whole pass for m = Len(pairs))
RECURSIVE SepPass(_, _, _, _, _, _, _, _)
SepPass(pts, np, w, h, pairs, rnd, initial, m) ==
    IF m = 0 THEN [np |-> np, moved |-> FALSE]
    ELSE LET before == SepPass(pts, np, w, h, pairs, rnd, initial, m - 1)
             pr == pairs[m]
             ms == IF initial THEN MinSepInitial(pts, before.np, pr.i, pr.j)
                   ELSE MinSepToggle(pts, before.np, pr.i, pr.j)
         IN  IF before.moved
             THEN SepPair(before.np, w, h, pr.i, pr.j, ms, rnd, initial, TRUE)
             ELSE SepPair(before.np, w, h, pr.i, pr.j, ms, rnd, initial, FALSE)

\* a loop that goes on to the end of its budget whatever a pass did
BreakNever(changed) == FALSE

\* if (!moved) break;  and  if (!changed) break;  (lines 226 and 232)
Break(changed) == ~changed

\* for (it = 0; it < budget; it++) { ...; if (!moved) break; }
\* state after at most `it` passes; passes counts the passes executed and
\* moved keeps the flag of each of them
RECURSIVE SepLoop(_, _, _, _, _, _, _)
SepLoop(pts, np, w, h, rnd, initial, it) ==
    IF it = 0 THEN [np |-> np, passes |-> 0, done |-> FALSE, moved |-> <<>>]
    ELSE LET prev == SepLoop(pts, np, w, h, rnd, initial, it - 1)
         IN  IF prev.done THEN prev
             ELSE LET pairs == PairSeq(NumPoints(pts))
                      r == SepPass(pts, prev.np, w, h, pairs, rnd, initial, Len(pairs))
                  IN  [np |-> r.np, passes |-> it, done |-> Break(r.moved),
                       moved |-> Append(prev.moved, r.moved)]

\* the ordered triples (i, j, k) of distinct indices, in loop order
TripleSeq(n) ==
    LET RECURSIVE Build(_)
        Build(m) ==
            IF m >= n * n * n THEN <<>>
            ELSE LET i == m \div (n * n)
                     j == (m \div n) % n
                     k == m % n
                 IN  (IF i = j \/ j = k \/ i = k THEN <<>>
                      ELSE <<[i |-> i, j |-> j, k |-> k]>>) \o Build(m + 1)
    IN  Build(0)

\* lines 158-187: one triple of resolveCollinearity
CollinearTriple(pts, np, w, h, i, j, k, adjusted) ==
    LET a == np[i]
        b == np[j]
        c == np[k]
        v1x == Sub(a.x, b.x)
        v1y == Sub(a.y, b.y)
        v2x == Sub(c.x, b.x)
        v2y == Sub(c.y, b.y)
        mag1 == Hypot(v1x, v1y)
        mag2 == Hypot(v2x, v2y)
    IN  IF IsNaN(mag1) \/ IsNaN(mag2) \/ mag1 = 0 \/ mag2 = 0
        THEN [np |-> np, adjusted |-> adjusted]
        ELSE
        LET dot  == v1x * v2x + v1y * v2y
            \* 10000 * |cos(ang)|; ang < 45 deg or pi - ang < 45 deg
            cos4 == (((Abs(dot) * 1000) \div mag1) * 10) \div mag2
            abKm == haversineKm(pts[i].lat, pts[i].lng, pts[j].lat, pts[j].lng)
            cbKm == haversineKm(pts[k].lat, pts[k].lng, pts[j].lat, pts[j].lng)
            near == (abKm # 0 /\ NearKm(abKm)) \/ (cbKm # 0 /\ NearKm(cbKm))
            sizes == a.sizeScale + c.sizeScale
            nudge == MathMax(10, IF near THEN RoundDiv(sizes * 96, 100)
                                 ELSE RoundDiv(sizes * 6, 10))
            dir  == IF j % 2 = 0 THEN 1 ELSE 0 - 1
            \* px = -ny, py = nx with (nx, ny) = v1 / mag1
            bx == Clamp(pad, w - pad, b.x + RoundDiv((0 - v1y) * nudge * dir, mag1))
            by == Clamp(pad, h - pad, b.y + RoundDiv(v1x * nudge * dir, mag1))
        IN  IF cos4 > 7071
            THEN [np |-> [np EXCEPT ![j].x = bx, ![j].y = by], adjusted |-> TRUE]
            ELSE [np |-> np, adjusted |-> adjusted]

\* resolveCollinearity() over the first m triples; adjusted is its result
RECURSIVE resolveCollinearity(_, _, _, _, _, _)
resolveCollinearity(pts, np, w, h, triples, m) ==
    IF m = 0 THEN [np |-> np, adjusted |-> FALSE]
    ELSE LET before == resolveCollinearity(pts, np, w, h, triples, m - 1)
             t == triples[m]
         IN  IF before.adjusted
             THEN CollinearTriple(pts, before.np, w, h, t.i, t.j, t.k, TRUE)
             ELSE CollinearTriple(pts, before.np, w, h, t.i, t.j, t.k, FALSE)

\* for (pass = 0; pass < 6; pass++) { if (!resolveCollinearity()) break; }
\* changed keeps what each call of resolveCollinearity() returned
RECURSIVE CollinearLoop(_, _, _, _, _)
CollinearLoop(pts, np, w, h, pass) ==
    IF pass = 0 THEN [np |-> np, done |-> FALSE, changed |-> <<>>]
    ELSE LET prev == CollinearLoop(pts, np, w, h, pass - 1)
         IN  IF prev.done THEN prev
             ELSE LET triples == TripleSeq(NumPoints(pts))
                      r == resolveCollinearity(pts, prev.np, w, h, triples, Len(triples))
                  IN  [np |-> r.np, done |-> Break(r.adjusted),
                       changed |-> Append(prev.changed, r.adjusted)]

\* what the IIFE leaves: the positions, the separation passes used, and
\* the flags of the passes of its two loops
Resolved(sep, col) ==
    [np |-> col.np, passes |-> sep.passes,
     log |-> [moved |-> sep.moved, changed |-> col.changed]]

\* lines 229-237: the collinearity passes on the result of the separation
CollinearAfter(pts, w, h, sep) ==
    Resolved(sep, CollinearLoop(pts, sep.np, w, h, collinearityPasses))

\* the IIFE of lines 148-245
resolveCollisions(pts, np, w, h, rnd) ==
    CollinearAfter(pts, w, h, SepLoop(pts, np, w, h, rnd, TRUE, iterations))

\* the relaxation of lines 402-427
ToggleRelax(pts, np, w, h, rnd) ==
    SepLoop(pts, np, w, h, rnd, FALSE, toggleIterations).np

----------------------------------------------------------------------------
(* Drawing (lines 108-139, 233-244) *)

\* drawNode(index): appends a node group unless the position is flagged
\* _drawn, and flags it
drawNode(np, layer, index) ==
    IF np[index].drawn THEN [np |-> np, layer |-> layer]
    ELSE [np |-> [np EXCEPT ![index].drawn = TRUE],
          layer |-> Append(layer, [index |-> index, x |-> np[index].x,
                                   y |-> np[index].y])]

\* nodeLayer.selectAll('g.node').each((d, i) => translate(nodePositions[i])):
\* the i-th group in document order takes the position of index i
RetransformNodes(np, layer) ==
    [g \in DOMAIN layer |->
        IF (g - 1) \in DOMAIN np
        THEN [layer[g] EXCEPT !.x = np[g - 1].x, !.y = np[g - 1].y]
        ELSE layer[g]]

\* traveller.attr('cx', nodePositions[0].x).attr('cy', nodePositions[0].y)
TravellerAtStart(np) == [cx |-> np[0].x, cy |-> np[0].y]

----------------------------------------------------------------------------
(* Uniform-link layout (lines 342-390) *)

\* The result of 300 ticks of the d3 force simulation (link, charge,
\* collision and centre forces).  d3-force is a library outside this
\* program, and deterministic; the model takes for its result the layout
\* its forces aim at: the chain centred on the canvas, every link of the
\* target length, along the x axis.
SimulationResult(n, targetLength, w, h) ==
    [i \in 0 .. (n - 1) |->
        [x |-> (w + (2 * i - (n - 1)) * targetLength) \div 2, y |-> h \div 2]]

\* lines 345-356 and 379-381: the node objects given to the simulation and
\* the write-back of its result sim
UniformWriteBack(pts, np, w, h, sim) ==
    [i \in DOMAIN np |->
        [np[i] EXCEPT
            !.x = Clamp(pad, w - pad, sim[i].x),
            !.y = Clamp(pad, h - pad, sim[i].y),
            !.labelWidth = IF np[i].labelWidth = 0
                           THEN 6 * (IF pts[i].nameLen = 0 THEN 1 ELSE pts[i].nameLen)
                           ELSE np[i].labelWidth]]

\* applyUniformLinkLayout(targetLength), given the simulation's result
applyUniformLinkLayout(pts, np, layer, trav, w, h, sim) ==
    IF NumPoints(pts) <= 1 THEN [np |-> np, layer |-> layer, trav |-> trav]
    ELSE LET np2 == UniformWriteBack(pts, np, w, h, sim)
         IN  [np |-> np2, layer |-> RetransformNodes(np2, layer),
              trav |-> TravellerAtStart(np2)]

----------------------------------------------------------------------------
(* Segment animation (lines 257-304) *)

Null == 0 - 1

\* line 283-284: baseMs / speed
Duration(distance, spd) ==
    IF IsNaN(distance) THEN NaN
    ELSE RoundDiv(MathMax(minBaseMs, MathMin(maxBaseMs, distance * 6)), spd)

\* animateTo(nextIndex) with the distance text taken from the length of the
\* segment on screen instead of haversineKm
animateToPixelLabel(pts, np, edges, spd, nextIndex) ==
    LET apos == np[nextIndex - 1]
        bpos == np[nextIndex]
        distance == Hypot(Sub(bpos.x, apos.x), Sub(bpos.y, apos.y))
        line == [seg |-> nextIndex, x1 |-> apos.x, y1 |-> apos.y,
                 x2 |-> apos.x, y2 |-> apos.y, tx |-> apos.x, ty |-> apos.y,
                 km |-> distance]
    IN  [edges |-> Append(edges, line),
         anim  |-> [next |-> nextIndex, ax |-> apos.x, ay |-> apos.y,
                    bx |-> bpos.x, by |-> bpos.y,
                    duration |-> Duration(distance, spd),
                    start |-> Null, t |-> 0, line |-> Len(edges) + 1]]

\* animateTo(nextIndex) up to its first requestAnimationFrame: the new
\* line with its distance text, and the frame callback with what its
\* closure captured
animateTo(pts, np, edges, spd, nextIndex) ==
    LET apos == np[nextIndex - 1]
        bpos == np[nextIndex]
        a == pts[nextIndex - 1]
        b == pts[nextIndex]
        line == [seg |-> nextIndex, x1 |-> apos.x, y1 |-> apos.y,
                 x2 |-> apos.x, y2 |-> apos.y, tx |-> apos.x, ty |-> apos.y,
                 km |-> haversineKm(a.lat, a.lng, b.lat, b.lng)]
        distance == Hypot(Sub(bpos.x, apos.x), Sub(bpos.y, apos.y))
    IN  [edges |-> Append(edges, line),
         anim  |-> [next |-> nextIndex, ax |-> apos.x, ay |-> apos.y,
                    bx |-> bpos.x, by |-> bpos.y,
                    duration |-> Duration(distance, spd),
                    start |-> Null, t |-> 0, line |-> Len(edges) + 1]]

\* ax + (bx - ax) * t with t = elapsed / duration, or bx when t = 1
Lerp(a, b, elapsed, duration) ==
    IF IsNaN(a) \/ IsNaN(b) \/ IsNaN(duration) THEN NaN
    ELSE IF elapsed >= duration THEN b
    ELSE a + RoundDiv((b - a) * elapsed, duration)

Mid(a, c) == IF IsNaN(a) \/ IsNaN(c) THEN NaN ELSE RoundDiv(a + c, 2)

\* The time since start that the callback of anim sees at this frame
\* (start is kept as the time elapsed since it was taken)
ElapsedAtFrame(anim) ==
    IF anim.start = Null THEN 0
    ELSE IF IsNaN(anim.duration) THEN anim.start
    ELSE MathMin(anim.duration, anim.start + FrameMs)

\* t < 1 (false for NaN)
Unfinished(anim, elapsed) == ~IsNaN(anim.duration) /\ elapsed < anim.duration

\* t = Math.min(1, (ts - start) / duration), in thousandths
Progress(elapsed, duration) ==
    IF IsNaN(duration) THEN NaN
    ELSE IF elapsed >= duration THEN 1000
    ELSE (elapsed * 1000) \div duration

\* step(ts) without the test of playing of line 287: the frame is rendered
\* whether or not the playback is paused
stepWhilePaused(st, anim) ==
    LET elapsed == ElapsedAtFrame(anim)
        cx == Lerp(anim.ax, anim.bx, elapsed, anim.duration)
        cy == Lerp(anim.ay, anim.by, elapsed, anim.duration)
        drawnSt == [st EXCEPT
                      !.traveller = [cx |-> cx, cy |-> cy],
                      !.edges[anim.line].x2 = cx,
                      !.edges[anim.line].y2 = cy,
                      !.edges[anim.line].tx = Mid(anim.ax, cx),
                      !.edges[anim.line].ty = Sub(Mid(anim.ay, cy), 6)]
    IN  IF Unfinished(anim, elapsed)
        THEN [drawnSt EXCEPT !.rafq =
                 Append(@, [anim EXCEPT !.start = elapsed,
                                        !.t = Progress(elapsed, anim.duration)])]
        ELSE [drawnSt EXCEPT !.currentIndex = anim.next,
                             !.timers = Append(@, settleMs)]

\* step(ts) of one animation, followed, when it resolves, by the
\* continuation of its playSequence (lines 326-328).  st holds playing,
\* currentIndex, traveller, edges, rafq (callbacks re-registered in this
\* frame) and timers.  The field t of a callback is the progress it last
\* rendered.
step(st, anim) ==
    IF ~st.playing
    THEN [st EXCEPT !.rafq = Append(@, [anim EXCEPT !.start = Null])]
    ELSE LET elapsed == ElapsedAtFrame(anim)
             cx == Lerp(anim.ax, anim.bx, elapsed, anim.duration)
             cy == Lerp(anim.ay, anim.by, elapsed, anim.duration)
             drawnSt == [st EXCEPT
                           !.traveller = [cx |-> cx, cy |-> cy],
                           !.edges[anim.line].x2 = cx,
                           !.edges[anim.line].y2 = cy,
                           !.edges[anim.line].tx = Mid(anim.ax, cx),
                           !.edges[anim.line].ty = Sub(Mid(anim.ay, cy), 6)]
         IN  IF Unfinished(anim, elapsed)
             THEN [drawnSt EXCEPT !.rafq =
                      Append(@, [anim EXCEPT !.start = elapsed,
                                             !.t = Progress(elapsed, anim.duration)])]
             ELSE [drawnSt EXCEPT !.currentIndex = anim.next,
                                  !.timers = Append(@, settleMs)]

\* the callbacks of one frame, in registration order
RECURSIVE RunFrame(_, _, _)
RunFrame(st, queue, m) ==
    IF m = 0 THEN st
    ELSE step(RunFrame(st, queue, m - 1), queue[m])

----------------------------------------------------------------------------
(* Inputs *)

Waypoint(lat, lng, bw) ==
    [lat |-> lat, lng |-> lng, bw |-> bw, bh |-> 0, nameLen |-> bw \div 11]

\* The values a coordinate field of a record of ROUTE_DATA can hold: no
\* value at all, null, a number, or a string
Absent == [type |-> "undefined", num |-> 0, text |-> ""]

JsNull == [type |-> "null", num |-> 0, text |-> ""]

Num(v) == [type |-> "number", num |-> v, text |-> ""]

Str(t) == [type |-> "string", num |-> 0, text |-> t]

\* the Number a string converts to (whole degrees), NaN when it has none
StringToNumber(t) ==
    CASE t = "" -> 0
      [] t = "1" -> 1
      [] t = "5" -> 5
      [] t = "10" -> 10
      [] OTHER -> NaN

\* the unary plus of lines 17 and 18
ToNumber(c) ==
    CASE c.type = "number" -> c.num
      [] c.type = "string" -> StringToNumber(c.text)
      [] c.type = "null" -> 0
      [] OTHER -> NaN

\* a record with its four coordinate fields; bw is the width the browser
\* measures for its name
Record(lat, lng, latitude, longitude, bw) ==
    [lat |-> lat, lng |-> lng, latitude |-> latitude, longitude |-> longitude,
     bw |-> bw]

\* the callback of map (lines 16-20): no point for a record it maps to null
normalisePoint(p) ==
    IF p.lat.type # "undefined" /\ p.lng.type # "undefined"
    THEN <<Waypoint(ToNumber(p.lat), ToNumber(p.lng), p.bw)>>
    ELSE IF p.latitude.type # "undefined" /\ p.longitude.type # "undefined"
    THEN <<Waypoint(ToNumber(p.latitude), ToNumber(p.longitude), p.bw)>>
    ELSE <<>>

\* .map(...).filter(Boolean) over the first m records
RECURSIVE normalise(_, _)
normalise(records, m) ==
    IF m = 0 THEN <<>>
    ELSE normalise(records, m - 1) \o normalisePoint(records[m])

\* ROUTE_DATA.route_with_coords: two records with numbers (one of them
\* under latitude / longitude), one without coordinates, one with numeric
\* strings, one whose latitude is not numeric, one with null coordinates
RouteData ==
    <<Record(Num(0), Num(5), Absent, Absent, 300),
      Record(Absent, Absent, Num(1), Num(5), 300),
      Record(Absent, Num(7), Num(3), Absent, 20),
      Record(Str("10"), Str("10"), Absent, Absent, 20),
      Record(Str("north"), Num(5), Absent, Absent, 20),
      Record(JsNull, JsNull, Absent, Absent, 20)>>

\* The normalised points are taken from the records of this tour.  Line 17
\* keeps the record whose latitude is not numeric, as +p.lat = NaN, and
\* the record of nulls, as +null = 0.
Tour == normalise(RouteData, Len(RouteData))

\* the routes: the first n records of the tour, each record alone, and the
\* first record followed by the one whose latitude is not a number
Routes ==
    {[i \in 0 .. (n - 1) |-> Tour[1 + i]] : n \in 1 .. MaxPoints}
    \cup {[i \in {0} |-> Tour[k]] : k \in 1 .. Len(Tour)}
    \cup {[i \in 0 .. 1 |-> Tour[1 + 3 * i]]}

\* Math.max(600, innerWidth) x Math.max(400, innerHeight)
Canvases == {[w |-> 600, h |-> 400]}

\* values the speed slider delivers
SliderValues == {0, 1, 4}

\* texts a control of any kind can hold as its value
ControlTexts == {"0", "1", "4", "-1", "-4", "", "fast", "2x"}

\* parseFloat: the number a text starts with, NaN when it starts with none
parseFloat(t) ==
    CASE t = "0" -> 0
      [] t = "1" -> 1
      [] t = "4" -> 4
      [] t = "-1" -> 0 - 1
      [] t = "-4" -> 0 - 4
      [] t = "2x" -> 2
      [] OTHER -> NaN

\* parseFloat(speedRange.value) || 1, v being the number parsed: 0 and NaN
\* are the numbers that || replaces
ParseSpeed(v) == IF v = 0 \/ IsNaN(v) THEN 1 ELSE v

\* computeAllPositions() followed by the relaxation of lines 402-427, for
\* every input and every direction Math.random() can give
GeographicToggle ==
    [route \in Routes |-> [c \in Canvases |-> [rnd \in RandomDirs |->
        ToggleRelax(route, computeAllPositions(route, c.w, c.h), c.w, c.h, rnd)]]]

----------------------------------------------------------------------------
(* Construction: the DOMContentLoaded handler (lines 1-449) *)

N == NumPoints(points)

\* lines 238-244: the drawn groups and the traveller take the resolved
\* positions
Settled(layer, resolved) ==
    [np |-> resolved.np, layer |-> RetransformNodes(resolved.np, layer),
     trav |-> TravellerAtStart(resolved.np), passes |-> resolved.passes,
     log |-> resolved.log]

\* line 148: the resolveCollisions IIFE after drawNode(0)
ResolvedAfterFirst(route, w, h, rnd, first) ==
    Settled(first.layer, resolveCollisions(route, first.np, w, h, rnd))

\* lines 141-245: computeAllPositions(), drawNode(0), resolveCollisions
GeographicLoad(route, w, h, rnd) ==
    ResolvedAfterFirst(route, w, h, rnd,
                       drawNode(computeAllPositions(route, w, h), <<>>, 0))

\* lines 435-442: applyUniformLinkLayout(250) when the button exists
UniformOnLoad(route, w, h, btn, geo) ==
    IF btn
    THEN [passes |-> geo.passes, log |-> geo.log] @@
         applyUniformLinkLayout(route, geo.np, geo.layer, geo.trav, w, h,
                                SimulationResult(NumPoints(route), loadTarget, w, h))
    ELSE geo

\* the state once the handler has run, ld being the layout it has built
Loaded(route, w, h, btn, spd, ld) ==
    /\ points = route
    /\ width = w
    /\ height = h
    /\ hasUniformBtn = btn
    /\ nodePositions = ld.np
    /\ nodeLayer = ld.layer
    /\ traveller = ld.trav
    /\ sepPasses = ld.passes
    /\ resolverLog = ld.log
    /\ playing = FALSE
    /\ speed = spd
    /\ currentIndex = 0
    /\ rafq = <<>>
    /\ timers = <<>>
    /\ edgeLayer = <<>>
    /\ toggles = 0
    /\ lastCmd = "load"

\* the graph page has no optimisation form
NoForm == [absent |-> TRUE]

\* the traveller marker when no svg has been created
NoMarker == [absent |-> TRUE]

\* what the handler has built when it returns at line 12 or at line 24
NothingBuilt ==
    [np |-> <<>>, layer |-> <<>>, trav |-> NoMarker, passes |-> 0,
     log |-> [moved |-> <<>>, changed |-> <<>>]]

\* The handler returns at line 12 (ROUTE_DATA is missing) or at line 24 (no
\* record gives a point).  The variables of the playback are then never
\* created; they are given the values playing = false, speed = 1,
\* currentIndex = 0, isUniform = false, which nothing reads.
EmptyLoad(records, w, h, btn) ==
    /\ normalise(records, Len(records)) = <<>>
    /\ Loaded(<<>>, w, h, btn, 1, NothingBuilt)
    /\ isUniform = FALSE
    /\ optimizeForm = NoForm

\* the handler runs to its end
FullLoad(route, w, h, btn, spd, ld) ==
    /\ Loaded(route, w, h, btn, spd, ld)
    /\ isUniform = btn
    /\ optimizeForm = NoForm

\* route data without any point: none at all, or one record without
\* coordinates
EmptyData == {<<>>, <<RouteData[3]>>}

\* the handler run on a page whose speed control holds one of values
Load(values) ==
    \/ \E route \in Routes, canvas \in Canvases, btn \in BOOLEAN,
          rnd \in RandomDirs, v \in values :
         FullLoad(route, canvas.w, canvas.h, btn, ParseSpeed(v),
                  UniformOnLoad(route, canvas.w, canvas.h, btn,
                                GeographicLoad(route, canvas.w, canvas.h, rnd)))
    \/ \E records \in EmptyData, canvas \in Canvases, btn \in BOOLEAN :
         EmptyLoad(records, canvas.w, canvas.h, btn)

Init == Load(SliderValues)

\* the handlers installed whether or not the page has points
InstalledAlways == TRUE

\* The listeners of lines 254, 333, 338 and 392 are added only when the
\* handler gets past its returns of lines 12 and 24, that is with a point
Installed == N > 0

----------------------------------------------------------------------------
(* Handlers and callbacks *)

\* the loop body of playSequence up to its first await (lines 320-325)
StartSegment ==
    LET next == currentIndex + 1
        d == drawNode(nodePositions, nodeLayer, next)
        a == animateTo(points, d.np, edgeLayer, speed, next)
    IN  /\ nodePositions' = d.np
        /\ nodeLayer' = d.layer
        /\ edgeLayer' = a.edges
        /\ rafq' = Append(rafq, a.anim)

\* playSequence() with lines 318 and 319 exchanged: the flag is raised
\* before the test of the index
playSequenceFlagFirst ==
    /\ playing' = TRUE
    /\ IF currentIndex >= N - 1
       THEN UNCHANGED <<nodePositions, nodeLayer, edgeLayer, rafq>>
       ELSE /\ Len(rafq) + Len(timers) < MaxLoops
            /\ StartSegment

\* playSequence() up to its first await (lines 317-325)
playSequence ==
    IF currentIndex >= N - 1
    THEN UNCHANGED <<playing, nodePositions, nodeLayer, edgeLayer, rafq>>
    ELSE /\ Len(rafq) + Len(timers) < MaxLoops
         /\ playing' = TRUE
         /\ StartSegment

\* a click handler that starts the sequence without looking at the flag
PlayUnguarded ==
    /\ Installed
    /\ playSequence
    /\ lastCmd' = "play"
    /\ UNCHANGED <<points, width, height, hasUniformBtn, traveller, speed,
                   currentIndex, isUniform, timers,
                   sepPasses, resolverLog, optimizeForm, toggles>>

\* playBtn click (lines 333-337)
Play ==
    /\ Installed
    /\ IF ~playing THEN playSequence
       ELSE UNCHANGED <<playing, nodePositions, nodeLayer, edgeLayer, rafq>>
    /\ lastCmd' = "play"
    /\ UNCHANGED <<points, width, height, hasUniformBtn, traveller, speed,
                   currentIndex, isUniform, timers,
                   sepPasses, resolverLog, optimizeForm, toggles>>

\* pauseBtn click (line 338)
Pause ==
    /\ Installed
    /\ playing' = FALSE
    /\ lastCmd' = "pause"
    /\ UNCHANGED <<points, width, height, hasUniformBtn, nodePositions,
                   nodeLayer, edgeLayer, traveller, speed, currentIndex,
                   isUniform, rafq, timers, sepPasses, resolverLog, optimizeForm, toggles>>

\* speedRange input (line 254)
SetSpeed ==
    \E v \in SliderValues :
      /\ Installed
      /\ speed' = ParseSpeed(v)
      /\ lastCmd' = "speed"
      /\ UNCHANGED <<points, width, height, hasUniformBtn, nodePositions,
                     nodeLayer, edgeLayer, traveller, playing, currentIndex,
                     isUniform, rafq, timers, sepPasses, resolverLog, optimizeForm, toggles>>

\* lines 428-429: the drawn groups move to the relaxed positions np and
\* the traveller to node 0
GeographicRelayout(np, layer) ==
    [np |-> np, layer |-> RetransformNodes(np, layer),
     trav |-> TravellerAtStart(np)]

\* the layout u becomes the one shown
ShowLayout(u) ==
    /\ nodePositions' = u.np
    /\ nodeLayer' = u.layer
    /\ traveller' = u.trav

\* what the click on uniformBtn does to the layout: applyUniformLinkLayout
\* (lines 393-397), or computeAllPositions() and the relaxation (398-430)
ToggleLayout ==
    /\ isUniform' = ~isUniform
    /\ IF ~isUniform
       THEN ShowLayout(applyUniformLinkLayout(
                points, nodePositions, nodeLayer, traveller, width, height,
                SimulationResult(N, defaultTarget, width, height)))
       ELSE \E rnd \in RandomDirs :
              ShowLayout(GeographicRelayout(
                  GeographicToggle[points][[w |-> width, h |-> height]][rnd],
                  nodeLayer))

\* a uniformBtn click that also rewinds the playback to the first node
ToggleRewinding ==
    /\ Installed
    /\ hasUniformBtn
    /\ toggles < MaxToggles
    /\ ToggleLayout
    /\ currentIndex' = 0
    /\ toggles' = toggles + 1
    /\ lastCmd' = "toggle"
    /\ UNCHANGED <<points, width, height, hasUniformBtn, edgeLayer, playing,
                   speed, rafq, timers, sepPasses, resolverLog, optimizeForm>>

\* uniformBtn click (lines 393-431)
Toggle ==
    /\ Installed
    /\ hasUniformBtn
    /\ toggles < MaxToggles
    /\ ToggleLayout
    /\ toggles' = toggles + 1
    /\ lastCmd' = "toggle"
    /\ UNCHANGED <<points, width, height, hasUniformBtn, edgeLayer, playing,
                   speed, currentIndex, rafq, timers, sepPasses, resolverLog, optimizeForm>>

\* one animation frame: FrameMs later, every registered step(ts) runs
Frame ==
    /\ \A k \in DOMAIN timers : timers[k] >= FrameMs
    /\ LET st0 == [playing |-> playing, currentIndex |-> currentIndex,
                   traveller |-> traveller, edges |-> edgeLayer, rafq |-> <<>>,
                   timers |-> [k \in DOMAIN timers |-> timers[k] - FrameMs]]
           st == RunFrame(st0, rafq, Len(rafq))
       IN  /\ currentIndex' = st.currentIndex
           /\ traveller' = st.traveller
           /\ edgeLayer' = st.edges
           /\ rafq' = st.rafq
           /\ timers' = st.timers
    /\ lastCmd' = "frame"
    /\ UNCHANGED <<points, width, height, hasUniformBtn, nodePositions,
                   nodeLayer, playing, speed, isUniform,
                   sepPasses, resolverLog, optimizeForm, toggles>>

\* the loop of playSequence written as a conditional: one pass only
LoopContinuesNever == FALSE

\* the condition of the while loop (line 320)
LoopContinues == playing /\ currentIndex < N - 1

\* the settle timer of a playSequence fires: the loop tests its condition
\* and goes on with the next segment or ends (lines 320, 328-330)
SettleTimer ==
    /\ timers # <<>>
    /\ Head(timers) <= FrameMs
    /\ timers' = Tail(timers)
    /\ IF LoopContinues
       THEN /\ StartSegment
            /\ UNCHANGED playing
       ELSE /\ playing' = FALSE
            /\ UNCHANGED <<nodePositions, nodeLayer, edgeLayer, rafq>>
    /\ lastCmd' = "timer"
    /\ UNCHANGED <<points, width, height, hasUniformBtn, traveller, speed,
                   currentIndex, isUniform, sepPasses, resolverLog, optimizeForm, toggles>>

Next ==
    \/ Play
    \/ Pause
    \/ SetSpeed
    \/ Toggle
    \/ Frame
    \/ SettleTimer

Spec == Init /\ [][Next]_vars

----------------------------------------------------------------------------
(* Playback from Idle with a single Play command and no Pause *)

FirstPlay == edgeLayer = <<>> /\ Play

NextPlayOnce ==
    \/ FirstPlay
    \/ SetSpeed
    \/ Toggle
    \/ Frame
    \/ SettleTimer

\* The head of timers is due and is taken off.  SettleTimer is enabled
\* exactly when a timer is due (StartSegment has no guard), and the steps
\* of NextPlayOnce that take the head off timers are those of SettleTimer.
TimerFires ==
    /\ timers # <<>>
    /\ Head(timers) <= FrameMs
    /\ timers' = Tail(timers)

\* Idle with a route of at least two waypoints
InitPlayable == Init /\ N >= 2

\* Frames are rendered and due timers fire as long as the page is shown
SpecPlayOnce ==
    /\ InitPlayable
    /\ [][NextPlayOnce]_vars
    /\ WF_vars(Frame)
    /\ WF_timers(TimerFires)

----------------------------------------------------------------------------
(* Playback on a route of four waypoints: the tour of the first three       *)
(* records that returns to its start, on a page with the uniform button     *)
(* that is left alone                                                       *)

ClosedTour == [i \in 0 .. 3 |-> Tour[IF i = 3 THEN 1 ELSE i + 1]]

InitClosedTour ==
    \E canvas \in Canvases, btn \in BOOLEAN, rnd \in RandomDirs,
       v \in SliderValues :
      FullLoad(ClosedTour, canvas.w, canvas.h, btn, ParseSpeed(v),
               UniformOnLoad(ClosedTour, canvas.w, canvas.h, btn,
                             GeographicLoad(ClosedTour, canvas.w, canvas.h, rnd)))

NextPlayback ==
    \/ Play
    \/ Pause
    \/ SetSpeed
    \/ Frame
    \/ SettleTimer

SpecClosedTour == InitClosedTour /\ [][NextPlayback]_vars

----------------------------------------------------------------------------
(* The speed handler on a control of any kind: the value is any text, and   *)
(* the only steps are those of the handler of line 254                      *)

InitAnyControl == Load({parseFloat(t) : t \in ControlTexts})

SetSpeedAnyControl ==
    \E t \in ControlTexts :
      /\ Installed
      /\ speed' = ParseSpeed(parseFloat(t))
      /\ lastCmd' = "speed"
      /\ UNCHANGED <<points, width, height, hasUniformBtn, nodePositions,
                     nodeLayer, edgeLayer, traveller, playing, currentIndex,
                     isUniform, rafq, timers, sepPasses, resolverLog, optimizeForm, toggles>>

SpecAnyControl == InitAnyControl /\ [][SetSpeedAnyControl]_vars

----------------------------------------------------------------------------
(* Properties *)

\* the callback in q that animates line l, if any
AnimsOfLine(q, l) == {k \in DOMAIN q : q[k].line = l}

\* some registered callback reaches t = 1 towards node idx at the next frame
ArrivesAt(idx) ==
    \E k \in DOMAIN rafq :
        /\ rafq[k].next = idx
        /\ ~Unfinished(rafq[k], ElapsedAtFrame(rafq[k]))

\* C1: currentIndex never decreases; it changes only by +1, and only in the
\* frame in which an animation towards node currentIndex + 1 reaches t = 1.
C1_IndexOnlyAdvances ==
    [][currentIndex' # currentIndex =>
          /\ currentIndex' = currentIndex + 1
          /\ lastCmd' = "frame"
          /\ ArrivesAt(currentIndex + 1)]_vars

\* C2: at most one playSequence loop (each is waiting on its animation or on
\* its settle timer) and at most one segment animation are alive.
C2_SingleLoop == Len(rafq) + Len(timers) <= 1

\* C3: the progress of a segment in flight never goes back, so a segment
\* paused at t0 and resumed goes on from t0.
C3_ResumeWherePaused ==
    [][\A k \in DOMAIN rafq : \A m \in AnimsOfLine(rafq', rafq[k].line) :
          IsNaN(rafq[k].t) \/ rafq'[m].t >= rafq[k].t]_vars

\* the progress a frame adds at the speed in force when the frame is rendered
LiveAdvance(anim) ==
    LET distance == Hypot(Sub(anim.bx, anim.ax), Sub(anim.by, anim.ay))
    IN  (FrameMs * 1000) \div Duration(distance, speed)

\* C4: a frame of a running segment advances it at the current speed, so a
\* speed change acts on the segment in flight (2 thousandths of rounding).
C4_SpeedReadLive ==
    [][(lastCmd' = "frame" /\ playing) =>
          \A k \in DOMAIN rafq : \A m \in AnimsOfLine(rafq', rafq[k].line) :
             (rafq[k].start # Null /\ ~IsNaN(rafq[k].duration)) =>
                rafq'[m].t - rafq[k].t >= LiveAdvance(rafq[k]) - 2]_vars

Finished == currentIndex = N - 1

\* the segments animated so far, in the order their lines were drawn
SegmentsAnimated == [k \in DOMAIN edgeLayer |-> edgeLayer[k].seg]

\* C5: after the single Play command, playback reaches currentIndex = N-1
\* with playing false, each segment animated once, in route order.
C5_PlayRunsToTheEnd ==
    (edgeLayer # <<>>) ~>
        (Finished /\ ~playing /\ SegmentsAnimated = [k \in 1 .. (N - 1) |-> k])

C5_Witness ==
    /\ N = 3 /\ Finished /\ ~playing /\ rafq = <<>> /\ timers = <<>>
    /\ Len(edgeLayer) = 2 /\ lastCmd = "timer"

\* C6: a Play command at currentIndex = N-1 changes nothing of the playback.
C6_PlayWhenFinishedIsNoOp ==
    [][(Finished /\ lastCmd' = "play") =>
          UNCHANGED <<playing, currentIndex, rafq, timers, nodeLayer, edgeLayer,
                      nodePositions, traveller>>]_vars

C6_Witness == N >= 2 /\ Finished /\ lastCmd = "play" /\ ~playing

C8_TravellerAtCurrentNode ==
    (lastCmd = "toggle" /\ ~playing) =>
        /\ traveller.cx = nodePositions[currentIndex].x
        /\ traveller.cy = nodePositions[currentIndex].y

InBounds(pos) ==
    /\ ~IsNaN(pos.x) /\ pad <= pos.x /\ pos.x <= width - pad
    /\ ~IsNaN(pos.y) /\ pad <= pos.y /\ pos.y <= height - pad

\* C9: every node position lies within the padding of the canvas.
C9_PositionsInBounds == \A i \in DOMAIN nodePositions : InBounds(nodePositions[i])

\* squared pixel distance of two positions
Dist2(a, b) == (b.x - a.x) * (b.x - a.x) + (b.y - a.y) * (b.y - a.y)

Numeric(pos) == ~IsNaN(pos.x) /\ ~IsNaN(pos.y)

\* C10: when the resolver run at load stopped before its 25th separation
\* pass, every two nodes are at least their minimum separation apart (one
\* pixel of rounding allowed; positions that are not numbers left aside).
\* Without the uniform button nodePositions is the resolver's result.
C10_SeparatedUnlessExhausted ==
    (~hasUniformBtn /\ sepPasses < iterations) =>
        \A i, j \in DOMAIN nodePositions :
            (i < j /\ Numeric(nodePositions[i]) /\ Numeric(nodePositions[j])) =>
                LET minSep == MinSepInitial(points, nodePositions, i, j)
                IN  Dist2(nodePositions[i], nodePositions[j])
                        >= (minSep - 1) * (minSep - 1)

\* the pixel coordinates of a layout
XY(np) == [i \in DOMAIN np |-> <<np[i].x, np[i].y>>]

\* the geographic layouts the load can build (lines 141-245): the positions
\* of computeAllPositions() after the resolveCollisions IIFE, for every
\* direction Math.random() can give
GeographicInitial ==
    [route \in Routes |-> [c \in Canvases |->
        {XY(resolveCollisions(route, computeAllPositions(route, c.w, c.h),
                              c.w, c.h, rnd).np) : rnd \in RandomDirs}]]

\* C11: after a toggle back from uniform to geographic the positions are
\* those the initial geographic layout gives the same waypoints and canvas.
C11_ToggleBackEqualsInitial ==
    (toggles >= 1 /\ ~isUniform) =>
        XY(nodePositions) \in GeographicInitial[points][[w |-> width, h |-> height]]

\* the flags of the passes of a loop with the given budget that breaks
\* after a pass whose flag is false: every pass but the last raised its
\* flag, and the last one did not unless it was the last of the budget
RunsToBreak(flags, budget) ==
    /\ Len(flags) \in 1 .. budget
    /\ \A k \in 1 .. (Len(flags) - 1) : flags[k]
    /\ Len(flags) < budget => ~flags[Len(flags)]

\* some two nodes are closer than the minimum separation of the resolver
OverlapsRemain ==
    \E i, j \in DOMAIN nodePositions :
        /\ i < j /\ Numeric(nodePositions[i]) /\ Numeric(nodePositions[j])
        /\ LET minSep == MinSepInitial(points, nodePositions, i, j)
           IN  Dist2(nodePositions[i], nodePositions[j]) < (minSep - 1) * (minSep - 1)

\* C12: the resolver ran at most 25 separation passes, stopping after the
\* first that moved nothing, and at most 6 collinearity passes, stopping
\* after the first that corrected nothing, and left a position for every
\* waypoint, whether or not overlaps remain.
C12_ResolverTerminates ==
    N > 0 =>
        /\ RunsToBreak(resolverLog.moved, iterations)
        /\ RunsToBreak(resolverLog.changed, collinearityPasses)
        /\ sepPasses = Len(resolverLog.moved)
        /\ DOMAIN nodePositions = Indices(points)

\* the resolver has returned with an overlap left, after passes that moved
C12_Witness ==
    /\ lastCmd = "load" /\ ~hasUniformBtn /\ OverlapsRemain
    /\ Len(resolverLog.moved) > 1

\* the value a distance label has when it depends on nothing but the
\* coordinates of the two waypoints of its segment (tenths of a kilometre)
LabelOfWaypoints(a, b) == haversineKm(a.lat, a.lng, b.lat, b.lng)

\* C13: the distance label of every drawn segment (i, i+1) is the value
\* determined by the geographic coordinates of waypoints i and i+1, whatever
\* the layout mode, the toggles and the pixel positions.
C13_LabelFromCoordinatesOnly ==
    \A k \in DOMAIN edgeLayer :
        edgeLayer[k].km =
            LabelOfWaypoints(points[edgeLayer[k].seg - 1], points[edgeLayer[k].seg])

\* two segments labelled, the layout toggled in between: the first line
\* does not start where node 0 is now
C13_Witness ==
    /\ N = 3 /\ toggles = 1 /\ Len(edgeLayer) = 2
    /\ edgeLayer[1].seg = 1 /\ edgeLayer[2].seg = 2
    /\ edgeLayer[1].x1 # nodePositions[0].x
    /\ edgeLayer[2].x1 = nodePositions[1].x
    /\ edgeLayer[1].km > 0 /\ edgeLayer[2].km > 0

\* C14: no two drawn lines belong to the same consecutive pair, so there are
\* at most N-1 lines, and exactly N-1 once currentIndex = N-1.
C14_OneEdgePerSegment ==
    /\ \A k, m \in DOMAIN edgeLayer :
           k # m => edgeLayer[k].seg # edgeLayer[m].seg
    /\ Len(edgeLayer) <= MathMax(0, N - 1)
    /\ Finished => Len(edgeLayer) = N - 1

\* the coordinate fields line 17 or line 18 reads from a record
CoordinatesOf(p) ==
    IF p.lat.type # "undefined" /\ p.lng.type # "undefined"
    THEN <<p.lat, p.lng>>
    ELSE <<p.latitude, p.longitude>>

\* a number, or a string that reads as one
Parseable(c) ==
    \/ c.type = "number" /\ ~IsNaN(c.num)
    \/ c.type = "string" /\ ~IsNaN(StringToNumber(c.text))

\* C15: every retained point has a numeric latitude and longitude and comes
\* from a record whose two coordinates are present and parseable; records
\* with absent or unparseable coordinates have been dropped.
C15_OnlyParseableRecordsKept ==
    \A i \in DOMAIN points :
        /\ ~IsNaN(points[i].lat) /\ ~IsNaN(points[i].lng)
        /\ \E k \in DOMAIN RouteData :
              /\ normalisePoint(RouteData[k]) = <<points[i]>>
              /\ Parseable(CoordinatesOf(RouteData[k])[1])
              /\ Parseable(CoordinatesOf(RouteData[k])[2])

\* nothing has been laid out or drawn
NothingDrawn ==
    /\ nodePositions = <<>> /\ nodeLayer = <<>> /\ edgeLayer = <<>>
    /\ traveller = NoMarker /\ rafq = <<>> /\ timers = <<>> /\ ~playing

\* C16: without a point (route data missing, or no record kept) nothing is
\* laid out or drawn, and no step changes the layout or the playback: no
\* handler is there to take a command.
C16_EmptyStateIsTerminal ==
    /\ [](N = 0 => NothingDrawn)
    /\ [][N = 0 => UNCHANGED <<points, nodePositions, nodeLayer, edgeLayer,
                               traveller, playing, speed, currentIndex,
                               isUniform, rafq, timers, toggles>>]_vars

\* the page without points, some frames later
C16_Witness == N = 0 /\ NothingDrawn /\ lastCmd = "frame"

\* rawX and rawY of every waypoint (line 96), before the clamping of lines
\* 97-100, for every input
Projected ==
    [route \in Routes |-> [c \in Canvases |-> [i \in DOMAIN route |->
        [x |-> xScale(route, c.w, route[i].lng),
         y |-> yScale(route, c.h, route[i].lat)]]]]

ProjectedX(i) == Projected[points][[w |-> width, h |-> height]][i].x

ProjectedY(i) == Projected[points][[w |-> width, h |-> height]][i].y

\* waypoints whose two coordinates are numbers
NumericPoints == {i \in DOMAIN points : ~IsNaN(points[i].lat) /\ ~IsNaN(points[i].lng)}

\* C17: before any clamping every waypoint is projected into
\* [pad, width-pad] x [pad, height-pad], and where the waypoints differ in
\* longitude (latitude) the extreme ones are projected onto the ends of the
\* range: west on pad, east on width-pad, north on pad, south on height-pad.
C17_ProjectedOntoRange ==
    \A i \in NumericPoints :
        /\ pad <= ProjectedX(i) /\ ProjectedX(i) <= width - pad
        /\ pad <= ProjectedY(i) /\ ProjectedY(i) <= height - pad
        /\ \A j \in NumericPoints :
              /\ points[j].lng < points[i].lng =>
                    \/ ProjectedX(i) < width - pad
                          /\ \E k \in NumericPoints : points[k].lng > points[i].lng
                    \/ ProjectedX(i) = width - pad
              /\ points[j].lat < points[i].lat =>
                    \/ ProjectedY(i) > pad
                          /\ \E k \in NumericPoints : points[k].lat > points[i].lat
                    \/ ProjectedY(i) = pad

\* a < b between numbers
Less(a, b) == ~IsNaN(a) /\ ~IsNaN(b) /\ a < b

\* C18: the projection keeps the order on each axis: a waypoint further
\* east is not projected further left, a waypoint further north is not
\* projected further down.
C18_ProjectionMonotonic ==
    \A a, b \in DOMAIN points :
        /\ Less(points[a].lng, points[b].lng) => ProjectedX(a) <= ProjectedX(b)
        /\ Less(points[a].lat, points[b].lat) => ProjectedY(a) >= ProjectedY(b)

\* a route with waypoints that differ in longitude and in latitude, whose
\* projections differ
C18_Witness ==
    /\ N = 3
    /\ Less(points[0].lng, points[2].lng) /\ ProjectedX(0) < ProjectedX(2)
    /\ Less(points[0].lat, points[1].lat) /\ ProjectedY(0) > ProjectedY(1)
    /\ Less(points[1].lat, points[2].lat) /\ ProjectedY(1) > ProjectedY(2)

\* C20: the stored speed is strictly positive, whatever text the speed
\* control held when it was read.
C20_SpeedPositive == speed > 0

\* C21: a frame rendered while playing is false moves neither the marker
\* nor the lines and their distance texts nor currentIndex, and every
\* callback is registered again.
C21_PausedFrameChangesNothing ==
    [][(lastCmd' = "frame" /\ ~playing) =>
          /\ UNCHANGED <<traveller, edgeLayer, currentIndex, playing>>
          /\ Len(rafq') = Len(rafq)]_vars

\* a frame has been rendered while a segment under way was paused
C21_Witness ==
    /\ lastCmd = "frame" /\ ~playing
    /\ \E k \in DOMAIN rafq : rafq[k].start = Null /\ rafq[k].t > 0

\* the waypoints that have a node group in the node layer
DrawnNodes == {nodeLayer[g].index : g \in DOMAIN nodeLayer}

\* C22: the drawn nodes are the waypoints 0..m with m = currentIndex or
\* currentIndex + 1; before the first segment starts only node 0 is drawn;
\* the node a segment animation moves to is drawn.
C22_NodesRevealedInOrder ==
    N > 0 =>
        /\ \E m \in {currentIndex, currentIndex + 1} : DrawnNodes = 0 .. m
        /\ edgeLayer = <<>> => DrawnNodes = {0}
        /\ \A k \in DOMAIN rafq : rafq[k].next \in DrawnNodes

\* the callback that a step has just registered for a new line
NewAnim == rafq'[Len(rafq')]

\* C23: the animation started with a new line lasts
\* clamp(6 * distance, 400, 6000) / speed milliseconds, distance being the
\* pixel distance of the positions of its two nodes at that moment, hence
\* between 400 / speed and 6000 / speed (half a millisecond of rounding).
C23_DurationFromDistance ==
    [][Len(edgeLayer') = Len(edgeLayer) + 1 =>
          LET a == nodePositions'[NewAnim.next - 1]
              b == nodePositions'[NewAnim.next]
              distance == Hypot(Sub(b.x, a.x), Sub(b.y, a.y))
          IN  /\ NewAnim.duration = Duration(distance, speed)
              /\ ~IsNaN(NewAnim.duration)
              /\ 2 * minBaseMs <= (2 * NewAnim.duration + 1) * speed
              /\ (2 * NewAnim.duration - 1) * speed <= 2 * maxBaseMs]_vars

\* C24: a click on Play while the flag is set changes nothing: no line and no
\* node is drawn, no further callback or timer is registered, and the index,
\* the marker and the progress of the segment in flight stay as they are.
C24_PlayWhilePlayingIsNoOp ==
    [][(lastCmd' = "play" /\ playing) =>
          UNCHANGED <<points, width, height, hasUniformBtn, nodePositions,
                      nodeLayer, edgeLayer, traveller, playing, speed,
                      currentIndex, isUniform, rafq, timers, toggles>>]_vars

\* Play was clicked while the only loop was part-way through its segment
C24_Witness ==
    /\ lastCmd = "play" /\ playing
    /\ Len(rafq) = 1 /\ timers = <<>>
    /\ rafq[1].start # Null /\ rafq[1].t > 0 /\ rafq[1].t < 1000

\* C25: the node layer holds at most one group for each waypoint, the k-th
\* group in document order being the group of waypoint k - 1.
C25_OneGroupPerWaypoint ==
    \A g \in DOMAIN nodeLayer : nodeLayer[g].index = g - 1

\* C26: whenever no segment is in flight, every line of the edge layer joins
\* the current positions of the two waypoints of its segment.
C26_EdgesJoinCurrentPositions ==
    rafq = <<>> =>
        \A e \in DOMAIN edgeLayer :
            LET line == edgeLayer[e]
                a == nodePositions[line.seg - 1]
                b == nodePositions[line.seg]
            IN  /\ line.x1 = a.x /\ line.y1 = a.y
                /\ line.x2 = b.x /\ line.y2 = b.y

----------------------------------------------------------------------------
(* The route-optimisation page: submit handler of optimizeForm *)

\* the variables of the graph page
graphPage == <<points, width, height, hasUniformBtn, nodePositions, nodeLayer,
               edgeLayer, traveller, playing, speed, currentIndex, isUniform,
               rafq, timers, sepPasses, resolverLog, toggles, lastCmd>>

NoResponse == [ok |-> FALSE, body |-> [json |-> "none"]]

\* The page after DOMContentLoaded: nothing shown, the button enabled.
\* inline: the handler renders the graph itself (displayRouteGraph); hasD3:
\* typeof d3 !== 'undefined'
FormAtLoad(inline, hasD3) ==
    [inline |-> inline, hasD3 |-> hasD3, phase |-> "idle",
     response |-> NoResponse,
     errorShown |-> FALSE, resultsShown |-> FALSE, loadingShown |-> FALSE,
     disabled |-> FALSE, errorText |-> <<>>, routeList |-> "",
     totalDistance |-> "", graph |-> "none", ended |-> ""]

\* bodies of a response: text that is not JSON, the JSON null, an object
\* with an error, and objects with or without route and coordinates
\* (coordinates may hold a null)
Malformed == [json |-> "malformed"]
NullBody == [json |-> "null"]
Object(error, route, coordinates) ==
    [json |-> "object", error |-> error, route |-> route,
     coordinates |-> coordinates]

Bodies ==
    {Malformed, NullBody,
     Object("City not found", FALSE, "absent"),
     Object("", TRUE, "points"),
     Object("", TRUE, "absent"),
     Object("", TRUE, "holes"),
     Object("", FALSE, "points")}

Responses == [ok : BOOLEAN, body : Bodies]

\* err.message of a fetch that rejects
NetworkMessages ==
    {"Failed to fetch", "NetworkError when attempting to fetch resource."}

LibraryMessages == {"L is not defined", "d3 is not defined"}

\* err.message.includes('Network')
IncludesNetwork(message) ==
    message = "NetworkError when attempting to fetch resource."

\* lines 373-378: the text of the error element, as its parts
errorMsg(message) ==
    IF message \in LibraryMessages
    THEN <<"Library loading error. Please refresh the page to reload required libraries.">>
    ELSE IF IncludesNetwork(message) THEN <<"Network error: ", message>>
    ELSE <<"An error occurred: ", message>>

\* lines 306-309
resetUI(f) ==
    [f EXCEPT !.errorShown = FALSE, !.resultsShown = FALSE,
              !.loadingShown = TRUE, !.disabled = TRUE]

\* a handler that only reports the error
CatchBlockReportsOnly(f, message, how) ==
    [f EXCEPT !.errorText = errorMsg(message), !.errorShown = TRUE,
              !.phase = "done", !.response = NoResponse, !.ended = how]

\* the catch block (lines 369-382)
CatchBlock(f, message, how) ==
    [f EXCEPT !.loadingShown = FALSE, !.disabled = FALSE,
              !.errorText = errorMsg(message), !.errorShown = TRUE,
              !.phase = "done", !.response = NoResponse, !.ended = how]

\* clearGraph(): empties the svg once one has been created
clearGraph(graph) == IF graph = "drawn" THEN "empty" ELSE graph

\* displayRouteGraph(routeData) (lines 51-271): the graph element, and the
\* message of the exception it ends with ("" when it returns)
displayRouteGraph(f, result) ==
    IF ~f.hasD3 THEN [graph |-> "notice", threw |-> ""]
    ELSE IF result.coordinates = "absent"
    THEN [graph |-> clearGraph(f.graph), threw |-> ""]
    ELSE IF result.coordinates = "holes"
    THEN [graph |-> "empty",
          threw |-> "Cannot read properties of null (reading 'lat')"]
    ELSE [graph |-> "drawn", threw |-> ""]

\* lines 346-367: the route list, the total distance, the graph, and then
\* the results panel
Render(f, result) ==
    IF ~result.route
    THEN CatchBlock([f EXCEPT !.routeList = ""],
                    "Cannot read properties of undefined (reading 'forEach')",
                    "exception while rendering")
    ELSE LET listed == [f EXCEPT !.routeList = "route",
                                 !.totalDistance = "distance"]
             drawn == displayRouteGraph(listed, result)
         IN  IF ~f.inline
             THEN [listed EXCEPT !.resultsShown = TRUE, !.phase = "done",
                                 !.response = NoResponse, !.ended = "success"]
             ELSE IF drawn.threw # ""
             THEN CatchBlock([listed EXCEPT !.graph = drawn.graph],
                             drawn.threw, "exception while rendering")
             ELSE [listed EXCEPT !.graph = drawn.graph,
                                 !.resultsShown = TRUE, !.phase = "done",
                                 !.response = NoResponse, !.ended = "success"]

\* lines 336-343 and what follows: the handler once the body is parsed
AfterJson(f, ok, result) ==
    LET shown == [f EXCEPT !.loadingShown = FALSE, !.disabled = FALSE]
    IN  IF result.json = "null"
        THEN CatchBlock(shown,
                        "Cannot read properties of null (reading 'error')",
                        "body without fields")
        ELSE IF ~ok \/ result.error # ""
        THEN [shown EXCEPT
                !.errorText = IF result.error # "" THEN <<result.error>>
                              ELSE <<"An error occurred">>,
                !.errorShown = TRUE, !.phase = "done",
                !.response = NoResponse, !.ended = "error response"]
        ELSE Render(shown, result)

\* The submit event up to the first await (lines 302-333).  The browser
\* submits the form through its default button only while the button is
\* enabled.  decodeURIComponent in getCookie throws on a malformed cookie.
Submit ==
    /\ ~optimizeForm.disabled
    /\ \E cookie \in {"token", "%"} :
         optimizeForm' =
            IF cookie = "%"
            THEN CatchBlock(resetUI(optimizeForm), "URI malformed",
                            "exception before the request")
            ELSE [resetUI(optimizeForm) EXCEPT !.phase = "fetch",
                                               !.ended = ""]
    /\ UNCHANGED graphPage

\* await fetch(...) settles (line 325)
FetchSettles ==
    /\ optimizeForm.phase = "fetch"
    /\ \/ \E message \in NetworkMessages :
            optimizeForm' = CatchBlock(optimizeForm, message, "network failure")
       \/ \E response \in Responses :
            optimizeForm' = [optimizeForm EXCEPT !.phase = "json",
                                                 !.response = response]
    /\ UNCHANGED graphPage

\* await response.json() settles (line 334), and the handler runs to its end
JsonSettles ==
    /\ optimizeForm.phase = "json"
    /\ optimizeForm' =
          IF optimizeForm.response.body = Malformed
          THEN CatchBlock(optimizeForm, "Unexpected token '<'",
                          "malformed JSON")
          ELSE AfterJson(optimizeForm, optimizeForm.response.ok,
                         optimizeForm.response.body)
    /\ UNCHANGED graphPage

\* The optimisation page: no route graph script has run on it
InitOptimize ==
    \E inline \in BOOLEAN, hasD3 \in BOOLEAN :
      /\ Loaded(<<>>, 0, 0, FALSE, 1, NothingBuilt)
      /\ isUniform = FALSE
      /\ optimizeForm = FormAtLoad(inline, hasD3)

NextOptimize ==
    \/ Submit
    \/ FetchSettles
    \/ JsonSettles

SpecOptimize == InitOptimize /\ [][NextOptimize]_vars

\* C27: a submission that has ended leaves the submit button enabled and the
\* loading indicator hidden, and exactly one of the results panel and the
\* error message shown.
C27_SubmissionEndsClean ==
    optimizeForm.phase = "done" =>
        /\ ~optimizeForm.disabled
        /\ ~optimizeForm.loadingShown
        /\ optimizeForm.errorShown # optimizeForm.resultsShown

\* a submission ended by an exception thrown while the graph was rendered
C27_Witness ==
    /\ optimizeForm.phase = "done"
    /\ optimizeForm.ended = "exception while rendering"
    /\ optimizeForm.graph = "empty"
    /\ optimizeForm.errorShown

====
